---- MODULE Spec2Model ----
(***************************************************************************)
(* Model of src/cpu/cpu_sw64.c, the sw64 CPU driver: the model registry    *)
(* (sw64ModelParse, sw64LoadMap, virCPUsw64DriverGetModels), the host      *)
(* detector (sw64CPUParseCpuModeString, sw64CPUParseCpuMode,               *)
(* virCPUsw64GetHost), virCPUsw64Compare and virCPUsw64Update.             *)
(*                                                                         *)
(* One behaviour of the model is one call into the driver.  Init draws the *)
(* call's inputs; the actions are the steps of the called function.        *)
(* C strings are sequences of one-character strings; the terminating NUL   *)
(* is the position Len(s) + 1.                                             *)
(***************************************************************************)
EXTENDS Integers, Sequences, FiniteSets, TLC

(* ---------------------------------------------------------------- bounds *)

\* longest sequence of model names the loader declares
MaxDecl == 3
\* most lines in the host-information text
MaxLines == 2

(* ------------------------------------------------------------- constants *)

\* a char * that is NULL
NoModel == "<null>"

ModelNames == {"core3", "core4", "Core3"}

VARIABLES
    call,       \* which driver entry point this behaviour runs
    pc,         \* position inside it
    ret,        \* its int return value (`int ret = -1` until it is set)
    cmp,        \* the virCPUCompareResult virCPUsw64Compare returned
    err,        \* the error it reported through virReportError
    \* virCPUsw64DriverGetModels
    decls,      \* the names the loader declares, in declaration order
    wantList,   \* whether the caller passed a non-NULL `models`
    mapLive,    \* whether a sw64Map is allocated
    map,        \* map->models, as the sequence of their names
    nparsed,    \* how many declarations the loader has handed to the callback
    models,     \* *models: [null |-> BOOLEAN, names |-> sequence]
    \* virCPUsw64Compare / virCPUsw64Update
    guest, host, relative,
    guest0,     \* the guest definition as it was passed in
    host0,      \* the host definition as it was passed in
    \* virCPUsw64GetHost
    cpuinfo,    \* the lines of CPUINFO_PATH, as fgets returns them
    file,       \* the FILE handle: "none", "open", "closed"
    ncloses,    \* how many times the handle was closed
    nread,      \* how many lines fgets has returned
    mode,       \* `unsigned int mode`: [set |-> assigned yet?, val |-> value]
    cpu         \* cpu->model

vars == <<call, pc, ret, cmp, err, decls, wantList, mapLive, map, nparsed, models,
          guest, host, relative, guest0, host0, cpuinfo, file, ncloses, nread, mode, cpu>>

regVars  == <<decls, wantList, mapLive, map, nparsed, models>>
defVars  == <<guest, host, relative, guest0, host0>>
hostVars == <<cpuinfo, file, ncloses, nread, mode, cpu>>

\* the messages of virReportError / virReportSystemError, by the error they stand for
NoError == "none"
DuplicateModel == "CPU model already defined"
UnknownHostModel == "unknown host CPU model"
MalformedHostInfo == "Missing or invalid CPU variation"
SourceUnavailable == "cannot open"

(* ------------------------------------------------------- sequence helpers *)

RECURSIVE SeqsUpTo(_, _)
\* all sequences over S of length at most n
SeqsUpTo(S, n) ==
    IF n = 0 THEN {<<>>}
    ELSE LET shorter == SeqsUpTo(S, n - 1)
         IN  shorter \cup {Append(s, x) : s \in shorter, x \in S}

(* ------------------------------------------------------------- registry  *)

NullList == [null |-> TRUE, names |-> <<>>]

\* sw64ModelFind: linear scan of map->models by STREQ
sw64ModelFind(m, name) == \E i \in 1..Len(m) : m[i] = name

\* what the registry variables hold before virCPUsw64DriverGetModels runs
RegIdle ==
    /\ mapLive = FALSE /\ map = <<>> /\ nparsed = 0
    /\ models = NullList

InitGetModels ==
    /\ call = "getModels"
    /\ decls \in SeqsUpTo(ModelNames, MaxDecl)
    /\ wantList \in BOOLEAN
    /\ RegIdle

\* sw64LoadMap, up to the call of cpuMapLoad: map = g_new0(sw64Map, 1)
sw64LoadMap ==
    /\ call = "getModels" /\ pc = "start"
    /\ mapLive' = TRUE /\ map' = <<>>
    /\ pc' = "loading"
    /\ UNCHANGED <<call, ret, cmp, err, decls, wantList, nparsed, models>>
    /\ UNCHANGED defVars /\ UNCHANGED hostVars

\* a callback that appends in front of the registry
sw64ModelParse_Prepend ==
    /\ call = "getModels" /\ pc = "loading" /\ nparsed < Len(decls)
    /\ LET name == decls[nparsed + 1]
       IN  IF sw64ModelFind(map, name)
           THEN /\ err' = DuplicateModel
                /\ pc' = "loadFailed"
                /\ UNCHANGED map
           ELSE /\ map' = <<name>> \o map
                /\ UNCHANGED <<err, pc>>
    /\ nparsed' = nparsed + 1
    /\ UNCHANGED <<call, ret, cmp, decls, wantList, mapLive, models>>
    /\ UNCHANGED defVars /\ UNCHANGED hostVars

\* sw64ModelParse, invoked by cpuMapLoad once per declared name, in order;
\* cpuMapLoad stops at the first invocation that returns < 0
sw64ModelParse ==
    /\ call = "getModels" /\ pc = "loading" /\ nparsed < Len(decls)
    /\ LET name == decls[nparsed + 1]
       IN  IF sw64ModelFind(map, name)
           THEN /\ err' = DuplicateModel
                /\ pc' = "loadFailed"
                /\ UNCHANGED map
           ELSE /\ map' = Append(map, name)   \* VIR_APPEND_ELEMENT
                /\ UNCHANGED <<err, pc>>
    /\ nparsed' = nparsed + 1
    /\ UNCHANGED <<call, ret, cmp, decls, wantList, mapLive, models>>
    /\ UNCHANGED defVars /\ UNCHANGED hostVars

\* sw64LoadMap after cpuMapLoad returned 0: return map
sw64LoadMapReturn ==
    /\ call = "getModels" /\ pc = "loading" /\ nparsed = Len(decls)
    /\ pc' = "haveMap"
    /\ UNCHANGED <<call, ret, cmp, err>>
    /\ UNCHANGED regVars /\ UNCHANGED defVars /\ UNCHANGED hostVars

\* an error path that returns the half-built map
sw64LoadMapError_KeepMap ==
    /\ call = "getModels" /\ pc = "loadFailed"
    /\ pc' = "haveMap"
    /\ UNCHANGED <<call, ret, cmp, err>>
    /\ UNCHANGED regVars /\ UNCHANGED defVars /\ UNCHANGED hostVars

\* sw64LoadMap after cpuMapLoad returned < 0: sw64MapFree(map); return NULL
sw64LoadMapError ==
    /\ call = "getModels" /\ pc = "loadFailed"
    /\ mapLive' = FALSE /\ map' = <<>>
    /\ pc' = "noMap"
    /\ UNCHANGED <<call, ret, cmp, err, decls, wantList, nparsed, models>>
    /\ UNCHANGED defVars /\ UNCHANGED hostVars

\* virCPUsw64DriverGetModels with a map: fill *models, ret = map->nmodels,
\* sw64MapFree(map)
virCPUsw64DriverGetModels ==
    /\ call = "getModels" /\ pc = "haveMap"
    /\ models' = IF wantList THEN [null |-> FALSE, names |-> map] ELSE models
    /\ ret' = Len(map)
    /\ mapLive' = FALSE /\ map' = <<>>
    /\ pc' = "done"
    /\ UNCHANGED <<call, cmp, err, decls, wantList, nparsed>>
    /\ UNCHANGED defVars /\ UNCHANGED hostVars

\* virCPUsw64DriverGetModels at its error label: *models = NULL, return -1
virCPUsw64DriverGetModelsError ==
    /\ call = "getModels" /\ pc = "noMap"
    /\ models' = IF wantList THEN NullList ELSE models
    /\ pc' = "done"
    /\ UNCHANGED <<call, ret, cmp, err, decls, wantList, mapLive, map, nparsed>>
    /\ UNCHANGED defVars /\ UNCHANGED hostVars

(* ------------------------------------------------------ compare / update *)

Modes == {"HOST_MODEL", "CUSTOM", "HOST_PASSTHROUGH"}
Matches == {"EXACT", "MINIMUM", "STRICT"}
DefModels == {NoModel, "core3", "core4"}

\* a virCPUDef pointer that is NULL
NullDef == [mode |-> "NULL", match |-> "NULL", model |-> "NULL"]

GuestDefs == [mode : Modes, match : Matches, model : DefModels]
HostDefs == [mode : {"CUSTOM"}, match : {"EXACT", "MINIMUM"}, model : DefModels]

InitDefs ==
    /\ call = "defs"
    /\ guest \in GuestDefs \cup {NullDef}
    /\ host \in HostDefs \cup {NullDef}
    /\ relative \in BOOLEAN
    /\ guest0 = guest /\ host0 = host

\* a comparison that looks at the models
virCPUsw64Compare_ByModel ==
    /\ call = "defs" /\ pc = "start"
    /\ cmp' = IF guest.model = host.model
              THEN "VIR_CPU_COMPARE_IDENTICAL"
              ELSE "VIR_CPU_COMPARE_INCOMPATIBLE"
    /\ pc' = "compared"
    /\ UNCHANGED <<call, ret, err>>
    /\ UNCHANGED regVars /\ UNCHANGED defVars /\ UNCHANGED hostVars

\* virCPUsw64Compare: return VIR_CPU_COMPARE_IDENTICAL
virCPUsw64Compare ==
    /\ call = "defs" /\ pc = "start"
    /\ cmp' = "VIR_CPU_COMPARE_IDENTICAL"
    /\ pc' = "compared"
    /\ UNCHANGED <<call, ret, err>>
    /\ UNCHANGED regVars /\ UNCHANGED defVars /\ UNCHANGED hostVars

\* virCPUDefCopyWithoutModel: the definition without its model
virCPUDefCopyWithoutModel(d) == [d EXCEPT !.model = NoModel]

\* virCPUDefCopyModel(dst, src, true): dst takes a copy of src's model
virCPUDefCopyModel(dst, src) == [dst EXCEPT !.model = src.model]

\* virCPUDefStealModel(dst, src, false): dst takes over src's model
virCPUDefStealModel(dst, src) == [dst EXCEPT !.model = src.model]

\* a resolution that forgets guest->match = VIR_CPU_MATCH_EXACT
UpdatedGuest_KeepMatch(g, h) ==
    LET copy == virCPUDefCopyWithoutModel(g)
        custom == [copy EXCEPT !.mode = "CUSTOM"]
        updated == virCPUDefCopyModel(custom, h)
        stolen == virCPUDefStealModel(g, updated)
    IN  [stolen EXCEPT !.mode = "CUSTOM"]

\* the guest as virCPUsw64Update leaves it when it resolves host-model
UpdatedGuest(g, h) ==
    LET copy == virCPUDefCopyWithoutModel(g)
        custom == [copy EXCEPT !.mode = "CUSTOM"]
        updated == virCPUDefCopyModel(custom, h)
        stolen == virCPUDefStealModel(g, updated)
    IN  [stolen EXCEPT !.mode = "CUSTOM", !.match = "EXACT"]

\* an update that does not test `relative`
UpdateOutcome_IgnoreRelative(g, h, rel) ==
    IF g.mode # "HOST_MODEL"
    THEN [ret |-> 0, err |-> NoError, guest |-> g]
    ELSE IF h = NullDef
         THEN [ret |-> -1, err |-> UnknownHostModel, guest |-> g]
         ELSE [ret |-> 0, err |-> NoError, guest |-> UpdatedGuest(g, h)]

\* an update that switches the guest to CUSTOM before it looks at the host
UpdateOutcome_ModeFirst(g, h, rel) ==
    IF ~rel \/ g.mode # "HOST_MODEL"
    THEN [ret |-> 0, err |-> NoError, guest |-> g]
    ELSE IF h = NullDef
         THEN [ret |-> -1, err |-> UnknownHostModel,
               guest |-> [g EXCEPT !.mode = "CUSTOM"]]
         ELSE [ret |-> 0, err |-> NoError, guest |-> UpdatedGuest(g, h)]

\* virCPUsw64Update(guest, host, relative): what it returns, the error it
\* reports and the guest it leaves
UpdateOutcome(g, h, rel) ==
    IF ~rel \/ g.mode # "HOST_MODEL"
    THEN [ret |-> 0, err |-> NoError, guest |-> g]
    ELSE IF h = NullDef
         THEN [ret |-> -1, err |-> UnknownHostModel, guest |-> g]
         ELSE [ret |-> 0, err |-> NoError, guest |-> UpdatedGuest(g, h)]

\* a call of virCPUsw64Update; the framework never passes a NULL guest
virCPUsw64Update ==
    /\ call = "defs" /\ pc = "start" /\ guest # NullDef
    /\ LET out == UpdateOutcome(guest, host, relative)
       IN  /\ ret' = out.ret
           /\ err' = out.err
           /\ guest' = out.guest
    /\ pc' = "done"
    /\ UNCHANGED <<call, cmp, host, relative, guest0, host0>>
    /\ UNCHANGED regVars /\ UNCHANGED hostVars

(* --------------------------------------------------------- host detector *)

\* const char *prefix = "cpu variation"
Label == <<"c", "p", "u", " ", "v", "a", "r", "i", "a", "t", "i", "o", "n">>

\* g_ascii_isspace
g_ascii_isspace(c) == c \in {" ", "\t", "\n", "\r", "\f"}

DigitChars == {"0", "1", "2", "3", "4", "5", "6", "7", "8", "9"}

DigitVal(c) ==
    CASE c = "0" -> 0 [] c = "1" -> 1 [] c = "2" -> 2 [] c = "3" -> 3
      [] c = "4" -> 4 [] c = "5" -> 5 [] c = "6" -> 6 [] c = "7" -> 7
      [] c = "8" -> 8 [] c = "9" -> 9

\* STRPREFIX(a, b): a starts with b
STRPREFIX(a, b) == Len(a) >= Len(b) /\ SubSeq(a, 1, Len(b)) = b

\* *str == '\0' at position i
AtEnd(s, i) == i > Len(s)

RECURSIVE SkipSpace(_, _)
\* while (g_ascii_isspace(*str)) str++
SkipSpace(s, i) ==
    IF ~AtEnd(s, i) /\ g_ascii_isspace(s[i]) THEN SkipSpace(s, i + 1) ELSE i

RECURSIVE ScanDigits(_, _, _)
\* the run of decimal digits from position i: its value and the position after it
ScanDigits(s, i, acc) ==
    IF ~AtEnd(s, i) /\ s[i] \in DigitChars
    THEN ScanDigits(s, i + 1, 10 * acc + DigitVal(s[i]))
    ELSE [val |-> acc, end |-> i]

\* virStrToLong_ui(str, &p, 10, &ui): fails when no digit is there.  The values
\* of the lines drawn below have at most two digits, far from the range error
\* of an unsigned int.
virStrToLong_ui(s, i) ==
    LET r == ScanDigits(s, i, 0)
    IN  [ok |-> r.end > i, val |-> r.val, end |-> r.end]

\* a parser that accepts any character after the number
sw64CPUParseCpuModeString_AnyTrailer(str, prefix, m) ==
    IF ~STRPREFIX(str, prefix) THEN [ret |-> 1, mode |-> m]
    ELSE LET i1 == SkipSpace(str, Len(prefix) + 1)
         IN  IF AtEnd(str, i1) THEN [ret |-> -1, mode |-> m]
             ELSE IF str[i1] # ":" THEN [ret |-> 1, mode |-> m]
             ELSE LET i2 == SkipSpace(str, i1 + 1)
                  IN  IF AtEnd(str, i2) THEN [ret |-> -1, mode |-> m]
                      ELSE LET n == virStrToLong_ui(str, i2)
                           IN  IF ~n.ok
                               THEN [ret |-> -1, mode |-> m]
                               ELSE [ret |-> 0,
                                     mode |-> [set |-> TRUE, val |-> n.val]]

\* sw64CPUParseCpuModeString: 1 = not the line, 0 = *mode assigned, -1 = error
sw64CPUParseCpuModeString(str, prefix, m) ==
    IF ~STRPREFIX(str, prefix) THEN [ret |-> 1, mode |-> m]
    ELSE LET i1 == SkipSpace(str, Len(prefix) + 1)
         IN  IF AtEnd(str, i1) THEN [ret |-> -1, mode |-> m]
             ELSE IF str[i1] # ":" THEN [ret |-> 1, mode |-> m]
             ELSE LET i2 == SkipSpace(str, i1 + 1)
                  IN  IF AtEnd(str, i2) THEN [ret |-> -1, mode |-> m]
                      ELSE LET n == virStrToLong_ui(str, i2)
                               p == n.end
                           IN  IF \/ ~n.ok
                                  \/ /\ ~AtEnd(str, p)
                                     /\ str[p] # "."
                                     /\ ~g_ascii_isspace(str[p])
                               THEN [ret |-> -1, mode |-> m]
                               ELSE [ret |-> 0,
                                     mode |-> [set |-> TRUE, val |-> n.val]]

(* the lines the host-information text is drawn from *)

Blank == {<<>>, <<" ">>}
Values == {<<>>, <<"3">>, <<"4">>, <<"7">>, <<"4", "3">>}
Trailers == {<<>>, <<"\n">>, <<".">>, <<"x">>}

\* "cpu variation", a colon, a value and what follows it
ColonLines ==
    {Label \o w \o <<":">> \o w \o v \o t : w \in Blank, v \in Values, t \in Trailers}

\* "cpu variation" and nothing, or a longer word that starts with the label
BareLines ==
    {Label \o w \o t : w \in Blank, t \in {<<>>, <<"\n">>}}
      \cup {Label \o w \o <<"s", ":", "3", "\n">> : w \in Blank}

\* lines that do not start with the label
OtherLines ==
    { <<"\n">>,
      <<"c", "p", "u", "\n">>,
      <<" ">> \o Label \o <<":", "3", "\n">> }

Lines == ColonLines \cup BareLines \cup OtherLines

\* values an unsigned int that was never assigned may hold
Indeterminate == {0, 3, 4, 7}

NoMode == [set |-> FALSE, val |-> 0]

HostIdle ==
    /\ file = "none" /\ ncloses = 0 /\ nread = 0
    /\ mode = NoMode
    /\ cpu = NoModel

InitGetHost ==
    /\ call = "getHost"
    /\ cpuinfo \in SeqsUpTo(Lines, MaxLines)
    /\ HostIdle

\* virCPUsw64GetHost: fopen(CPUINFO_PATH, "r"), which the system may refuse
fopen ==
    /\ call = "getHost" /\ pc = "start"
    /\ \/ /\ file' = "open"
          /\ pc' = "reading"
          /\ UNCHANGED <<ret, err>>
       \/ /\ err' = SourceUnavailable
          /\ ret' = -1
          /\ pc' = "done"
          /\ UNCHANGED file
    /\ UNCHANGED <<call, cmp, cpuinfo, ncloses, nread, mode, cpu>>
    /\ UNCHANGED regVars /\ UNCHANGED defVars

\* a scan that returns from the function as soon as a line is malformed
sw64CPUParseCpuMode_ReturnEarly ==
    /\ call = "getHost" /\ pc = "reading" /\ nread < Len(cpuinfo)
    /\ LET r == sw64CPUParseCpuModeString(cpuinfo[nread + 1], Label, mode)
       IN  IF r.ret < 0
           THEN /\ err' = MalformedHostInfo
                /\ ret' = -1
                /\ pc' = "done"
                /\ UNCHANGED mode
           ELSE /\ mode' = r.mode
                /\ UNCHANGED <<err, ret, pc>>
    /\ nread' = nread + 1
    /\ UNCHANGED <<call, cmp, cpuinfo, file, ncloses, cpu>>
    /\ UNCHANGED regVars /\ UNCHANGED defVars

\* a scan that keeps the first code it parsed
sw64CPUParseCpuMode_FirstWins ==
    /\ call = "getHost" /\ pc = "reading" /\ nread < Len(cpuinfo)
    /\ LET r == sw64CPUParseCpuModeString(cpuinfo[nread + 1], Label, mode)
       IN  IF r.ret < 0
           THEN /\ err' = MalformedHostInfo
                /\ ret' = -1
                /\ pc' = "cleanup"
                /\ UNCHANGED mode
           ELSE /\ mode' = IF mode.set THEN mode ELSE r.mode
                /\ UNCHANGED <<err, ret, pc>>
    /\ nread' = nread + 1
    /\ UNCHANGED <<call, cmp, cpuinfo, file, ncloses, cpu>>
    /\ UNCHANGED regVars /\ UNCHANGED defVars

\* sw64CPUParseCpuMode, one turn of its loop: fgets returns a line
sw64CPUParseCpuMode ==
    /\ call = "getHost" /\ pc = "reading" /\ nread < Len(cpuinfo)
    /\ LET r == sw64CPUParseCpuModeString(cpuinfo[nread + 1], Label, mode)
       IN  IF r.ret < 0
           THEN /\ err' = MalformedHostInfo
                /\ ret' = -1
                /\ pc' = "cleanup"
                /\ UNCHANGED mode
           ELSE /\ mode' = r.mode
                /\ UNCHANGED <<err, ret, pc>>
    /\ nread' = nread + 1
    /\ UNCHANGED <<call, cmp, cpuinfo, file, ncloses, cpu>>
    /\ UNCHANGED regVars /\ UNCHANGED defVars

\* the model name virCPUsw64GetHost stores for a variation code
ModelOfMode(m, old) == IF m = 3 THEN "core3" ELSE IF m = 4 THEN "core4" ELSE old

\* virCPUsw64GetHost after fgets returned NULL: ret = 0, then the test of
\* `mode`, which holds an indeterminate value when no line assigned it
virCPUsw64GetHost ==
    /\ call = "getHost" /\ pc = "reading" /\ nread = Len(cpuinfo)
    /\ ret' = 0
    /\ \E m \in (IF mode.set THEN {mode.val} ELSE Indeterminate) :
           cpu' = ModelOfMode(m, cpu)
    /\ pc' = "cleanup"
    /\ UNCHANGED <<call, cmp, err, cpuinfo, file, ncloses, nread, mode>>
    /\ UNCHANGED regVars /\ UNCHANGED defVars

\* virCPUsw64GetHost at its cleanup label: VIR_FORCE_FCLOSE(cpuinfo)
VIR_FORCE_FCLOSE ==
    /\ call = "getHost" /\ pc = "cleanup"
    /\ file' = "closed"
    /\ ncloses' = ncloses + 1
    /\ pc' = "done"
    /\ UNCHANGED <<call, ret, cmp, err, cpuinfo, nread, mode, cpu>>
    /\ UNCHANGED regVars /\ UNCHANGED defVars

(* --------------------------------------------------------- specification *)

DefsIdle ==
    /\ guest = NullDef /\ host = NullDef /\ relative = FALSE
    /\ guest0 = NullDef /\ host0 = NullDef

Init ==
    /\ pc = "start" /\ ret = -1 /\ cmp = "none" /\ err = NoError
    /\ \/ InitGetModels /\ DefsIdle /\ cpuinfo = <<>> /\ HostIdle
       \/ InitDefs /\ decls = <<>> /\ wantList = FALSE /\ RegIdle
                   /\ cpuinfo = <<>> /\ HostIdle
       \/ InitGetHost /\ decls = <<>> /\ wantList = FALSE /\ RegIdle /\ DefsIdle

Next ==
    \/ sw64LoadMap
    \/ sw64ModelParse
    \/ sw64LoadMapReturn
    \/ sw64LoadMapError
    \/ virCPUsw64DriverGetModels
    \/ virCPUsw64DriverGetModelsError
    \/ virCPUsw64Compare
    \/ virCPUsw64Update
    \/ fopen
    \/ sw64CPUParseCpuMode
    \/ virCPUsw64GetHost
    \/ VIR_FORCE_FCLOSE

Spec == Init /\ [][Next]_vars

(* ------------------------------------------------- the declared names    *)

NoDuplicate(d) == \A i, j \in 1..Len(d) : d[i] = d[j] => i = j

\* whether d[j] repeats an earlier name
Repeats(d, j) == \E i \in 1..(j - 1) : d[i] = d[j]

\* the position of the first name that repeats an earlier one
SecondOccurrence(d) ==
    CHOOSE j \in 1..Len(d) : Repeats(d, j) /\ \A k \in 1..(j - 1) : ~Repeats(d, k)

Returned == pc = "done"

\* C1: for declared names without a duplicate, listing returns their number
\* and, when a list is asked for, exactly the declared sequence in its order.
C1_ListIsDeclaredSequence ==
    (call = "getModels" /\ Returned /\ NoDuplicate(decls)) =>
        /\ ret = Len(decls)
        /\ err = NoError
        /\ wantList => models = [null |-> FALSE, names |-> decls]
        /\ ~wantList => models = NullList

C1_Witness ==
    /\ call = "getModels" /\ Returned /\ NoDuplicate(decls)
    /\ Len(decls) = MaxDecl /\ wantList
    /\ ret = MaxDecl /\ models.names = decls

\* C2: for declared names with a duplicate, the callback fails at the second
\* occurrence with DuplicateModel, the map is freed, and listing returns an
\* error and a NULL list: no name registered before the duplicate comes back.
C2_DuplicateAbortsBuild ==
    (call = "getModels" /\ Returned /\ ~NoDuplicate(decls)) =>
        /\ ret = -1
        /\ err = DuplicateModel
        /\ nparsed = SecondOccurrence(decls)
        /\ ~mapLive /\ map = <<>>
        /\ models = NullList

C2_Witness ==
    /\ call = "getModels" /\ Returned /\ wantList
    /\ Len(decls) = 3 /\ decls[1] # decls[2] /\ decls[3] = decls[2]
    /\ ret = -1 /\ nparsed = 3 /\ models.null

(* ------------------------------------------------------ compare / update *)

Resolves == relative /\ guest0.mode = "HOST_MODEL"

\* C3: relative, HOST_MODEL and a host: success, the guest ends CUSTOM, EXACT
\* and with the host's model, whatever it held; the host is as it was.
C3_UpdateResolvesHostModel ==
    (call = "defs" /\ Returned /\ Resolves /\ host0 # NullDef) =>
        /\ ret = 0
        /\ err = NoError
        /\ guest.mode = "CUSTOM"
        /\ guest.match = "EXACT"
        /\ guest.model = host0.model
        /\ host = host0

C3_Witness ==
    /\ call = "defs" /\ Returned /\ Resolves
    /\ guest0.match = "MINIMUM" /\ guest0.model = "core3"
    /\ host0 # NullDef /\ host0.model = "core4"
    /\ guest = [mode |-> "CUSTOM", match |-> "EXACT", model |-> "core4"]

\* C4: not relative, or a guest mode other than HOST_MODEL: success and the
\* guest is as it was, with or without a host.
C4_UpdateNoOp ==
    (call = "defs" /\ Returned /\ ~Resolves) =>
        /\ ret = 0
        /\ err = NoError
        /\ guest = guest0

C4_Witness ==
    /\ call = "defs" /\ Returned
    /\ ~relative /\ guest0.mode = "HOST_MODEL" /\ host0 = NullDef
    /\ ret = 0 /\ guest = guest0

\* C5: relative, HOST_MODEL and no host: failure with UnknownHostModel and
\* the guest is as it was.
C5_UpdateWithoutHostFails ==
    (call = "defs" /\ Returned /\ Resolves /\ host0 = NullDef) =>
        /\ ret = -1
        /\ err = UnknownHostModel
        /\ guest = guest0

C5_Witness ==
    /\ call = "defs" /\ Returned /\ Resolves /\ host0 = NullDef
    /\ guest0.model = "core3" /\ guest0.match = "STRICT"
    /\ ret = -1 /\ guest = guest0

\* C9: Compare returns IDENTICAL for every pair of definitions, reports no
\* error and changes neither definition.
C9_CompareIdentical ==
    (call = "defs" /\ pc = "compared") =>
        /\ cmp = "VIR_CPU_COMPARE_IDENTICAL"
        /\ err = NoError
        /\ guest = guest0 /\ host = host0

C9_Witness ==
    /\ call = "defs" /\ pc = "compared"
    /\ guest0.model = "core3" /\ host0.model = "core4"
    /\ cmp = "VIR_CPU_COMPARE_IDENTICAL"

(* ----------------------------------------- the host-information text     *)

WhiteSpace == {" ", "\t", "\n", "\r", "\f"}

BeginsWithLabel(l) ==
    /\ Len(l) >= Len(Label)
    /\ \A i \in 1..Len(Label) : l[i] = Label[i]

\* the line after the label
Rest(l) == SubSeq(l, Len(Label) + 1, Len(l))

AllSpace(r, a, b) == \A i \in a..b : r[i] \in WhiteSpace

\* r[k] is a colon and only whitespace stands before it
ColonAt(r, k) == r[k] = ":" /\ AllSpace(r, 1, k - 1)

\* r[a..b] is a number that follows the colon at k and is followed by the
\* end of the string, whitespace or '.'
NumberAt(r, k, a, b) ==
    /\ k < a /\ a <= b
    /\ AllSpace(r, k + 1, a - 1)
    /\ \A i \in a..b : r[i] \in DigitChars
    /\ b = Len(r) \/ r[b + 1] \in WhiteSpace \cup {"."}

Spans(r) == {<<k, a, b>> : k \in 1..Len(r), a \in 1..Len(r), b \in 1..Len(r)}

\* a matching line: label, colon, number
CarriesValue(l) ==
    /\ BeginsWithLabel(l)
    /\ \E sp \in Spans(Rest(l)) :
           ColonAt(Rest(l), sp[1]) /\ NumberAt(Rest(l), sp[1], sp[2], sp[3])

RECURSIVE Decimal(_)
\* the number a sequence of digits writes
Decimal(d) ==
    IF d = <<>> THEN 0
    ELSE 10 * Decimal(SubSeq(d, 1, Len(d) - 1)) + DigitVal(d[Len(d)])

\* the variation code of a matching line
Code(l) ==
    LET r == Rest(l)
        sp == CHOOSE x \in Spans(r) : ColonAt(r, x[1]) /\ NumberAt(r, x[1], x[2], x[3])
    IN  Decimal(SubSeq(r, sp[2], sp[3]))

\* a label line that is malformed: exhausted after the label, exhausted after
\* the colon, or a colon followed by something that is no number
Malformed(l) ==
    /\ BeginsWithLabel(l)
    /\ \/ AllSpace(Rest(l), 1, Len(Rest(l)))
       \/ \E k \in 1..Len(Rest(l)) :
              /\ ColonAt(Rest(l), k)
              /\ \/ AllSpace(Rest(l), k + 1, Len(Rest(l)))
                 \/ ~CarriesValue(l)

Opened == file # "none"

AnyMalformed == \E i \in 1..Len(cpuinfo) : Malformed(cpuinfo[i])
AnyValue == \E i \in 1..Len(cpuinfo) : CarriesValue(cpuinfo[i])

\* the last matching line of the text
LastValueLine ==
    cpuinfo[CHOOSE i \in 1..Len(cpuinfo) :
                /\ CarriesValue(cpuinfo[i])
                /\ \A j \in (i + 1)..Len(cpuinfo) : ~CarriesValue(cpuinfo[j])]

\* the model the spec's table gives a code
TableModel(c) == IF c = 3 THEN "core3" ELSE IF c = 4 THEN "core4" ELSE NoModel

\* C6: when no label line is malformed and some line carries a value,
\* detection succeeds and the model is the one of the last matching line's
\* code: core3 for 3, core4 for 4, unset otherwise.
C6_LastVariationLineDecides ==
    (call = "getHost" /\ Returned /\ Opened /\ ~AnyMalformed /\ AnyValue) =>
        /\ ret = 0
        /\ err = NoError
        /\ cpu = TableModel(Code(LastValueLine))

C6_Witness ==
    /\ call = "getHost" /\ Returned /\ Opened
    /\ Len(cpuinfo) = 2
    /\ CarriesValue(cpuinfo[1]) /\ Code(cpuinfo[1]) = 3
    /\ CarriesValue(cpuinfo[2]) /\ Code(cpuinfo[2]) = 4
    /\ ret = 0 /\ cpu = "core4"

\* C7: when the text opens and has no matching line (and no malformed one),
\* detection succeeds and sets no model.
C7_NoMatchLeavesModelUnset ==
    (call = "getHost" /\ Returned /\ Opened /\ ~AnyMalformed /\ ~AnyValue) =>
        /\ ret = 0
        /\ cpu = NoModel

\* C8: when some label line is malformed, detection fails with
\* MalformedHostInfo and writes no model, whatever the other lines are.
C8_MalformedLineFails ==
    (call = "getHost" /\ Returned /\ Opened /\ AnyMalformed) =>
        /\ ret = -1
        /\ err = MalformedHostInfo
        /\ cpu = NoModel

C8_Witness ==
    /\ call = "getHost" /\ Returned /\ Opened
    /\ Len(cpuinfo) = 2
    /\ CarriesValue(cpuinfo[1]) /\ Code(cpuinfo[1]) = 3
    /\ Malformed(cpuinfo[2])
    /\ ret = -1 /\ cpu = NoModel

\* C10: when virCPUsw64GetHost has returned, no handle is open: one that was
\* opened was closed exactly once, on success and on a parse failure, and a
\* failed open leaves none.
C10_HandleReleased ==
    /\ ncloses <= 1
    /\ (call = "getHost" /\ Returned) =>
        /\ file # "open"
        /\ err = SourceUnavailable => (file = "none" /\ ncloses = 0)
        /\ err # SourceUnavailable => (file = "closed" /\ ncloses = 1)

C10_Witness ==
    /\ call = "getHost" /\ Returned
    /\ err = MalformedHostInfo /\ ret = -1
    /\ file = "closed" /\ ncloses = 1

====
